---- MODULE Spec2Model ----
(***************************************************************************)
(* A model of trussme.truss.Truss (src/trussme/truss.py): the bookkeeping  *)
(* calls (set_goal, add_support, add_joint, add_member, move_joint,        *)
(* set_load), and the direct-stiffness analysis calc_fos/evaluate_forces.  *)
(*                                                                         *)
(* Numbers.  numpy's float64 values are modelled as exact extended         *)
(* rationals: a pair <<n, d>> in lowest terms with d >= 0, where d = 0     *)
(* stands for the IEEE values +inf (<<1,0>>), -inf (<<-1,0>>) and nan      *)
(* (<<0,0>>).  Rounding is not modelled; division by zero and nan          *)
(* propagation are.                                                        *)
(*                                                                         *)
(* Units.  Forces are measured in units of g/2 newtons (4.903325 N), so    *)
(* that the lumped self-weight m.mass/2.0*g of line 108 is the number      *)
(* m.mass; lengths are in metres.                                          *)
(***************************************************************************)
EXTENDS Integers, Sequences, FiniteSets, TLC

\* ------------------------------------------------------------------------
\* Bounds of the model.
\* ------------------------------------------------------------------------

\* At most this many joints are added.
MaxJoints == 3

\* At most this many members are added.
MaxMembers == 2

\* At most this many keyword arguments in one set_goal call.
MaxKw == 2

\* ------------------------------------------------------------------------
\* Extended rational arithmetic (float64 without rounding).
\* ------------------------------------------------------------------------

Abs(x) == IF x < 0 THEN -x ELSE x

Sgn(x) == IF x < 0 THEN -1 ELSE IF x > 0 THEN 1 ELSE 0

RECURSIVE GCD(_, _)
GCD(a, b) == IF b = 0 THEN a ELSE GCD(b, a % b)

\* The value n/d in lowest terms, d >= 0; n/0 is +inf, -inf or nan.
Norm(n, d) ==
    IF d = 0 THEN <<Sgn(n), 0>>
    ELSE IF n = 0 THEN <<0, 1>>
    ELSE LET g == GCD(Abs(n), Abs(d))
             s == Sgn(d)
         IN  <<(s * n) \div g, (s * d) \div g>>

R(n) == <<n, 1>>

Zero == <<0, 1>>
One == <<1, 1>>
NaN == <<0, 0>>
Inf == <<1, 0>>

IsNaN(a) == a[1] = 0 /\ a[2] = 0
IsFinite(a) == a[2] > 0

RAdd(a, b) ==
    IF a[2] = 0 /\ b[2] = 0
    THEN (IF a[1] = b[1] THEN a ELSE NaN)
    ELSE IF a[2] = 1 /\ b[2] = 1 THEN <<a[1] + b[1], 1>>
    ELSE Norm(a[1] * b[2] + b[1] * a[2], a[2] * b[2])

RNeg(a) == <<-a[1], a[2]>>

RSub(a, b) == RAdd(a, RNeg(b))

RMul(a, b) ==
    IF a[2] = 1 /\ b[2] = 1 THEN <<a[1] * b[1], 1>>
    ELSE Norm(a[1] * b[1], a[2] * b[2])

\* a / b in IEEE arithmetic: x/0 is an infinity, 0/0 and inf/inf are nan.
RDiv(a, b) ==
    LET s == IF b[1] < 0 THEN -1 ELSE 1
    IN  Norm(s * a[1] * b[2], s * a[2] * b[1])

RAbs(a) == <<Abs(a[1]), a[2]>>

\* Python's a < b on floats: false when either side is nan.
RLess(a, b) ==
    IF IsNaN(a) \/ IsNaN(b) THEN FALSE
    ELSE IF a[2] = 0 /\ b[2] = 0 THEN a[1] < b[1]
    ELSE a[1] * b[2] < b[1] * a[2]

\* Python's truth value of a float: false only for zero.
Truthy(a) == ~(a[1] = 0 /\ a[2] > 0)

\* Python's min(list): the first item that no later item is less than.
RECURSIVE PyMinFrom(_, _, _)
PyMinFrom(s, i, best) ==
    IF i > Len(s) THEN best
    ELSE PyMinFrom(s, i + 1, IF RLess(s[i], best) THEN s[i] ELSE best)

PyMin(s) == PyMinFrom(s, 2, s[1])

\* sum of a sequence of numbers, left to right.
RECURSIVE RSumFrom(_, _, _)
RSumFrom(s, i, acc) ==
    IF i > Len(s) THEN acc ELSE RSumFrom(s, i + 1, RAdd(acc, s[i]))

RSum(s) == RSumFrom(s, 1, Zero)

\* ------------------------------------------------------------------------
\* Physical properties and the geometry the inputs are drawn from.
\* ------------------------------------------------------------------------

\* physical_properties.g in the model's force unit (g/2 newtons): 9.80665
\* m/s^2 is 2 units per kilogram.
g == 2

\* The properties of a Member, which are the same for every member built by
\* Member(joint_a, joint_b): cross-section area, density, modulus of
\* elasticity, yield strength and pi^2*E*I (model units).
area == 1

rho == 1

elastic_modulus == 60

Fy == 70000

PI2_E_I == 1800000

\* The sentinel of line 150.
NonGoverning == 10000

\* The corners of a 3 m by 4 m rectangle in the plane z = 0: every distance
\* between two of them (3, 4 or 5) is rational.
Corners == << <<0, 0, 0>>, <<3, 0, 0>>, <<3, 4, 0>>, <<0, 4, 0>> >>

\* The coordinates the k-th joint (k = 0, 1, ...) is created at.
CornerOf(k) == Corners[(k % Len(Corners)) + 1]

\* numpy.linalg.norm of an integer vector (every length of the model is an
\* integer).
norm(v) ==
    LET l2 == v[1] * v[1] + v[2] * v[2] + v[3] * v[3]
    IN  CHOOSE r \in 0 .. l2 : r * r = l2

\* ------------------------------------------------------------------------
\* Joint and Member.
\* ------------------------------------------------------------------------

ZeroVec == <<Zero, Zero, Zero>>

\* The attribute `load` does not exist until set_load creates it.
NoLoad == <<>>

\* joint.Joint(coordinates): translation flags all set, no load, no member.
Joint(coordinates, idx) ==
    [coordinates |-> coordinates,
     idx         |-> idx,
     translation |-> <<1, 1, 1>>,
     loads       |-> <<0, 0, 0>>,
     load        |-> NoLoad,
     members     |-> <<>>,
     reactions   |-> ZeroVec,
     deflections |-> ZeroVec]

\* Joint.pinned(d): every axis constrained.
pinned(j, d) == [j EXCEPT !.translation = <<1, 1, 1>>]

\* Joint.free(d): every axis free; in two dimensions the out-of-plane axis is
\* constrained.
free(j, d) ==
    [j EXCEPT !.translation = IF d = 2 THEN <<0, 0, 1>> ELSE <<0, 0, 0>>]

\* member.Member(joint_a, joint_b): the member holds its two joints (here
\* their indices) and no force yet.
Member(a, b) ==
    [joints       |-> <<a, b>>,
     force        |-> Zero,
     fos_yielding |-> Zero,
     fos_buckling |-> Zero]

\* The length of member m between the joints js.
MemberLength(m, js) ==
    LET ca == js[m.joints[1] + 1].coordinates
        cb == js[m.joints[2] + 1].coordinates
    IN  norm(<<cb[1] - ca[1], cb[2] - ca[2], cb[3] - ca[3]>>)

\* Member.mass: density * area * length.
MemberMass(m, js) == rho * area * MemberLength(m, js)

\* Member.set_force(force): stores the force and derives the member's factors
\* of safety; the buckling factor is positive only in compression.
set_force(m, force, js) ==
    LET len == MemberLength(m, js)
    IN  [m EXCEPT
           !.force = force,
           !.fos_yielding = RDiv(R(Fy * area), RAbs(force)),
           !.fos_buckling =
               RDiv(RNeg(RDiv(R(PI2_E_I), R(len * len))), force)]


\* ------------------------------------------------------------------------
\* evaluate_forces: the direct-stiffness solve.
\*
\* Arrays are sequences, so entry [a, j] of a numpy array (axis a, joint j,
\* both from 0) is array[a + 1][j + 1], and entry f of a flat vector is
\* flat[f + 1].  A sequence written [i \in 1 .. n |-> e] \o <<>> is the same
\* sequence; the concatenation makes TLC tabulate it once.
\* ------------------------------------------------------------------------

JointOf(f) == f \div 3

AxisOf(f) == f % 3

\* numpy.where(v == 1)[0] for a flat vector v: the indices (from 0) whose
\* entry is 1, ascending.
RECURSIVE FlatWhereFrom(_, _)
FlatWhereFrom(v, f) ==
    IF f >= Len(v) THEN <<>>
    ELSE (IF v[f + 1] = One THEN <<f>> ELSE <<>>) \o FlatWhereFrom(v, f + 1)

\* Line 169: ff = numpy.where(deflections.T.flat == 1)[0]; entry 3*j + a of
\* deflections.T.flat is deflections[a, j].
FreeDofs(deflections, n) ==
    FlatWhereFrom([f \in 1 .. (3 * n) |->
                     deflections[AxisOf(f - 1) + 1][JointOf(f - 1) + 1]]
                  \o <<>>, 0)

\* A variant of line 198 without the transpose, numpy.where(deflections == 1):
\* the <<axis, joint>> pairs in axis-major order.  C9 must tell it from
\* WhereT.
RECURSIVE WhereUntransposed(_, _, _, _)
WhereUntransposed(deflections, row, col, n) ==
    IF row > 2 THEN <<>>
    ELSE IF col >= n THEN WhereUntransposed(deflections, row + 1, 0, n)
    ELSE (IF deflections[row + 1][col + 1] = One
          THEN << <<row, col>> >> ELSE <<>>)
         \o WhereUntransposed(deflections, row, col + 1, n)

\* Line 198: numpy.where(deflections.T == 1), the <<row, column>> pairs of
\* the n-by-3 array deflections.T whose entry is 1, in row-major order; the
\* row is ff[0][i] and the column is ff[1][i].
RECURSIVE WhereT(_, _, _, _)
WhereT(deflections, row, col, n) ==
    IF row >= n THEN <<>>
    ELSE IF col > 2 THEN WhereT(deflections, row + 1, 0, n)
    ELSE (IF deflections[col + 1][row + 1] = One
          THEN << <<row, col>> >> ELSE <<>>)
         \o WhereT(deflections, row, col + 1, n)

\* Lines 198-200: deflections[ff[1][i], ff[0][i]] = Uff[i] for every i.
Scatter(deflections, Uff, n) ==
    LET ff == WhereT(deflections, 0, 0, n)
    IN  [a \in 1 .. 3 |-> [j \in 1 .. n |->
            IF \E i \in 1 .. Len(ff) : ff[i] = <<j - 1, a - 1>>
            THEN Uff[CHOOSE i \in 1 .. Len(ff) : ff[i] = <<j - 1, a - 1>>]
            ELSE deflections[a][j]] \o <<>>] \o <<>>

\* Lines 173-183 for member i: its ends, ea_over_l*d2 and tj[:, i].
MemberStiffness(info, i) ==
    LET ends == info.connections[i]
        length_vector == [a \in 1 .. 3 |->
                            info.coordinates[a][ends[2] + 1]
                            - info.coordinates[a][ends[1] + 1]] \o <<>>
        length == R(norm(length_vector))
        direction == [a \in 1 .. 3 |-> RDiv(R(length_vector[a]), length)]
                     \o <<>>
        ea_over_l ==
            RDiv(RMul(R(info.elastic_modulus[i]), R(info.area[i])), length)
    IN  [ends |-> ends,
         kd2  |-> [a \in 1 .. 3 |-> [b \in 1 .. 3 |->
                     RMul(ea_over_l, RMul(direction[a], direction[b]))]
                     \o <<>>] \o <<>>,
         tj   |-> [a \in 1 .. 3 |-> RMul(ea_over_l, direction[a])] \o <<>>]

\* Lines 184-188: what one member adds to dof[r, c]: ss[ii, j] for every pair
\* of positions ii, j of e with e[ii] = r and e[j] = c.
DofPart(ms, r, c) ==
    LET k == ms.kd2[AxisOf(r) + 1][AxisOf(c) + 1]
        part(p, q) ==
            IF ms.ends[p] = JointOf(r) /\ ms.ends[q] = JointOf(c)
            THEN (IF p = q THEN k ELSE RNeg(k))
            ELSE Zero
    IN  IF JointOf(r) \in {ms.ends[1], ms.ends[2]}
           /\ JointOf(c) \in {ms.ends[1], ms.ends[2]}
        THEN RAdd(RAdd(RAdd(part(1, 1), part(1, 2)), part(2, 1)), part(2, 2))
        ELSE Zero

\* Lines 164, 172-188: entry [r, c] of the global stiffness matrix dof.
dof(ms, r, c) ==
    RSum([i \in 1 .. Len(ms) |-> DofPart(ms[i], r, c)] \o <<>>)

\* Gauss-Jordan elimination of the augmented matrix M (rows 1..n, columns
\* 1..n+1) from column k on; <<>> when a column has no pivot.
RECURSIVE Eliminate(_, _, _)
Eliminate(M, k, n) ==
    IF k > n THEN M
    ELSE LET rows == {p \in k .. n : Truthy(M[p][k])}
         IN  IF rows = {} THEN <<>>
             ELSE LET p == CHOOSE q \in rows : \A q2 \in rows : q <= q2
                      piv == M[p][k]
                      prow == [c \in 1 .. (n + 1) |-> RDiv(M[p][c], piv)]
                              \o <<>>
                      swapped == [M EXCEPT ![p] = M[k], ![k] = prow]
                      next == [q \in 1 .. n |->
                                IF q = k \/ ~Truthy(swapped[q][k])
                                THEN swapped[q]
                                ELSE [c \in 1 .. (n + 1) |->
                                        RSub(swapped[q][c],
                                             RMul(swapped[q][k], prow[c]))]
                                     \o <<>>] \o <<>>
                  IN  Eliminate(next, k + 1, n)

\* numpy.linalg.solve(SSff, Loadff): the solution, or <<>> where numpy raises
\* LinAlgError (a singular matrix, or no unknown at all).  Singular means
\* exactly singular: the matrices of members along the axes (lengths 3 and
\* 4) are exact in float64 as well.
solve(SSff, Loadff) ==
    LET n == Len(Loadff)
        M == [p \in 1 .. n |-> [c \in 1 .. (n + 1) |->
                IF c <= n THEN SSff[p][c] ELSE Loadff[p]] \o <<>>] \o <<>>
        E == Eliminate(M, 1, n)
    IN  IF n = 0 \/ E = <<>> THEN <<>>
        ELSE [p \in 1 .. n |-> E[p][n + 1]] \o <<>>

\* numpy.linalg.cond(SSff) > pow(10, 10).  cond is infinite for a singular
\* matrix and nan for a matrix holding a nan; for the non-singular matrices
\* built from members of length 3, 4 and 5 with one cross-section it stays
\* below a few hundred.
cond_exceeds(SSff) ==
    LET n == Len(SSff)
    IN  /\ \A p \in 1 .. n : \A c \in 1 .. n : IsFinite(SSff[p][c])
        /\ solve(SSff, [p \in 1 .. n |-> Zero]) = <<>>

\* forces *= pow(10, 10)
scale_unstable(f) == RMul(f, RMul(R(100000), R(100000)))

\* Lines 201-203: the member forces recovered from the deflections.
recover_forces(ms, deflections) ==
    [i \in 1 .. Len(ms) |->
       RSum([a \in 1 .. 3 |->
              RMul(ms[i].tj[a],
                   RSub(deflections[a][ms[i].ends[2] + 1],
                        deflections[a][ms[i].ends[1] + 1]))] \o <<>>)]
    \o <<>>

\* Lines 206-207: dof times the flat deflections, row by row, reshaped to
\* [axis, joint].
recover_reactions(ms, deflections, n) ==
    LET flat == [r \in 1 .. (3 * n) |->
                   RSum([c \in 1 .. (3 * n) |->
                          RMul(dof(ms, r - 1, c - 1),
                               deflections[AxisOf(c - 1) + 1]
                                          [JointOf(c - 1) + 1])] \o <<>>)]
                \o <<>>
    IN  [a \in 1 .. 3 |-> [j \in 1 .. n |-> flat[3 * (j - 1) + a]] \o <<>>]
        \o <<>>

\* Lines 165-166 and 169: the free degrees of freedom of truss_info.
free_dofs(info) ==
    LET n == Len(info.reactions[1])
    IN  FreeDofs([a \in 1 .. 3 |-> [j \in 1 .. n |->
                    RSub(One, R(info.reactions[a][j]))] \o <<>>] \o <<>>, n)

\* Lines 172-193: the reduced stiffness matrix SSff of truss_info.
reduced_stiffness(info) ==
    LET ff == free_dofs(info)
        ms == [i \in 1 .. Len(info.connections) |->
                 MemberStiffness(info, i)] \o <<>>
    IN  [i \in 1 .. Len(ff) |-> [j \in 1 .. Len(ff) |->
            dof(ms, ff[i], ff[j])] \o <<>>] \o <<>>

\* evaluate_forces(truss_info): not done when numpy.linalg.solve raises, else
\* the forces, deflections and reactions it returns, with the locals ff and
\* Uff, the forces before line 204, and the load array it was given.
evaluate_forces(info) ==
    LET n == Len(info.reactions[1])
        \* lines 165-166: ones minus the support flags
        deflections0 == [a \in 1 .. 3 |-> [j \in 1 .. n |->
                           RSub(One, R(info.reactions[a][j]))] \o <<>>]
                        \o <<>>
        ff == free_dofs(info)
        ms == [i \in 1 .. Len(info.connections) |->
                 MemberStiffness(info, i)] \o <<>>
        nf == Len(ff)
        SSff == reduced_stiffness(info)
        \* line 195: loads.T.flat[ff]
        Loadff == [i \in 1 .. nf |->
                     info.loads[AxisOf(ff[i]) + 1][JointOf(ff[i]) + 1]]
                  \o <<>>
        Uff == solve(SSff, Loadff)
        deflections == Scatter(deflections0, Uff, n)
        recovered == recover_forces(ms, deflections)
    IN  IF Uff = <<>> THEN [done |-> FALSE]
        ELSE [done |-> TRUE, loads |-> info.loads, ff |-> ff, Uff |-> Uff,
              \* a nan in SSff: the SVD inside numpy.linalg.cond (line 204)
              \* may or may not converge
              svd_may_fail |-> \E p \in 1 .. nf : \E c \in 1 .. nf :
                                  ~IsFinite(SSff[p][c]),
              recovered |-> recovered,
              \* lines 204-205
              forces |-> IF cond_exceeds(SSff)
                         THEN [i \in 1 .. Len(ms) |->
                                 scale_unstable(recovered[i])] \o <<>>
                         ELSE recovered,
              deflections |-> deflections,
              reactions |-> recover_reactions(ms, deflections, n)]

\* ------------------------------------------------------------------------
\* The Truss object.
\* ------------------------------------------------------------------------

VARIABLES
    members,            \* self.members
    joints,             \* self.joints
    number_of_joints,   \* self.number_of_joints
    number_of_members,  \* self.number_of_members
    fos_yielding,       \* self.fos_yielding
    fos_buckling,       \* self.fos_buckling
    fos_total,          \* self.fos_total
    limit_state,        \* self.limit_state
    goals,              \* self.goals
    THERE_ARE_GOALS,    \* self.THERE_ARE_GOALS
    last_run,           \* what the last completed evaluate_forces computed
    called,             \* the kind of the last call: "edit", "calc_fos", ...
    raised              \* the exception the last call raised, "" if none

vars == <<members, joints, number_of_joints, number_of_members, fos_yielding,
          fos_buckling, fos_total, limit_state, goals, THERE_ARE_GOALS,
          last_run, called, raised>>

structure == <<members, joints, number_of_joints, number_of_members>>

results == <<fos_yielding, fos_buckling, fos_total, limit_state, last_run>>

goal_vars == <<goals, THERE_ARE_GOALS>>

GoalKeys == {"min_fos_total", "min_fos_buckling", "min_fos_yielding",
             "max_mass", "max_deflection"}

\* Truss.__init__
Init ==
    /\ members = <<>>
    /\ joints = <<>>
    /\ number_of_joints = 0
    /\ number_of_members = 0
    /\ fos_yielding = Zero
    /\ fos_buckling = Zero
    /\ fos_total = Zero
    /\ limit_state = ""
    /\ goals = [k \in GoalKeys |-> -1]
    /\ THERE_ARE_GOALS = FALSE
    /\ last_run = [done |-> FALSE]
    /\ called = ""
    /\ raised = ""

\* How a call ends: it returns, or it raises an exception.
returns(kind) == called' = kind /\ raised' = ""

raises(kind, exception) == called' = kind /\ raised' = exception

\* Truss.add_support(coordinates, d)
add_support(coordinates, d) ==
    /\ number_of_joints < MaxJoints
    /\ joints' = Append(joints,
                        pinned(Joint(coordinates, number_of_joints), d))
    /\ number_of_joints' = number_of_joints + 1
    /\ returns("edit")
    /\ UNCHANGED <<members, number_of_members, results, goal_vars>>

\* Truss.add_joint(coordinates, d)
add_joint(coordinates, d) ==
    /\ number_of_joints < MaxJoints
    /\ joints' = Append(joints,
                        free(Joint(coordinates, number_of_joints), d))
    /\ number_of_joints' = number_of_joints + 1
    /\ returns("edit")
    /\ UNCHANGED <<members, number_of_members, results, goal_vars>>

\* Python's list index: i counts from the end when negative; -1 (no position)
\* where self.joints[i] raises IndexError.  Positions are 0-based.
PyIndex(i, n) ==
    IF 0 <= i /\ i < n THEN i
    ELSE IF i < 0 /\ -n <= i THEN n + i
    ELSE -1

\* Truss.add_member(joint_index_a, joint_index_b)
add_member(joint_index_a, joint_index_b) ==
    LET n == Len(joints)
        a == PyIndex(joint_index_a, n)
        b == PyIndex(joint_index_b, n)
        k == Len(members) + 1
    IN  /\ number_of_members < MaxMembers
        /\ IF a = -1 \/ b = -1
           THEN \* line 73-74: self.joints[...] raises before anything is stored
                /\ raises("edit", "IndexError")
                /\ UNCHANGED <<structure, results, goal_vars>>
           ELSE /\ members' = Append(members, Member(a, b))
                /\ joints' = [i \in 1 .. n |->
                    LET once == IF i = a + 1
                                THEN Append(joints[i].members, k)
                                ELSE joints[i].members
                        twice == IF i = b + 1 THEN Append(once, k) ELSE once
                    IN  [joints[i] EXCEPT !.members = twice]]
                /\ number_of_members' = number_of_members + 1
                /\ returns("edit")
                /\ UNCHANGED <<number_of_joints, results, goal_vars>>

\* Truss.move_joint(joint_index, coordinates)
move_joint(joint_index, coordinates) ==
    LET i == PyIndex(joint_index, Len(joints))
    IN  IF i = -1
        THEN /\ raises("edit", "IndexError")
             /\ UNCHANGED <<structure, results, goal_vars>>
        ELSE /\ joints' = [joints EXCEPT ![i + 1].coordinates = coordinates]
             /\ returns("edit")
             /\ UNCHANGED <<members, number_of_joints, number_of_members,
                            results, goal_vars>>

\* Truss.set_load(joint_index, load): assigns the joint's attribute `load`.
set_load(joint_index, load) ==
    LET i == PyIndex(joint_index, Len(joints))
    IN  IF i = -1
        THEN /\ raises("edit", "IndexError")
             /\ UNCHANGED <<structure, results, goal_vars>>
        ELSE /\ joints' = [joints EXCEPT ![i + 1].load = load]
             /\ returns("edit")
             /\ UNCHANGED <<members, number_of_joints, number_of_members,
                            results, goal_vars>>

\* T.joints[i].loads[axis] = value, the way the test applies a load.
assign_loads(i, axis, value) ==
    /\ i \in 0 .. (Len(joints) - 1)
    /\ joints' = [joints EXCEPT ![i + 1].loads[axis + 1] = value]
    /\ returns("edit")
    /\ UNCHANGED <<members, number_of_joints, number_of_members, results,
                   goal_vars>>


\* Lines 107-109: half the weight of every member at joint i (from 1).
lumped_weight(js, ms, i) ==
    RSum([x \in 1 .. Len(js[i].members) |->
            RDiv(R(MemberMass(ms[js[i].members[x]], js) * g), R(2))] \o <<>>)

\* Lines 95-132 of calc_fos: the arrays handed to evaluate_forces.
build_truss_info(js, ms) ==
    LET n == Len(js)
    IN  [coordinates |-> [a \in 1 .. 3 |-> [i \in 1 .. n |->
                            js[i].coordinates[a]] \o <<>>] \o <<>>,
         reactions   |-> [a \in 1 .. 3 |-> [i \in 1 .. n |->
                            js[i].translation[a]] \o <<>>] \o <<>>,
         loads       |-> [a \in 1 .. 3 |-> [i \in 1 .. n |->
                            IF a = 2
                            THEN RSub(R(js[i].loads[2]),
                                      lumped_weight(js, ms, i))
                            ELSE R(js[i].loads[a])] \o <<>>] \o <<>>,
         elastic_modulus |-> [k \in 1 .. Len(ms) |-> elastic_modulus],
         area        |-> [k \in 1 .. Len(ms) |-> area],
         connections |-> [k \in 1 .. Len(ms) |->
                            <<js[ms[k].joints[1] + 1].idx,
                              js[ms[k].joints[2] + 1].idx>>] \o <<>>]

\* A variant of lines 139-146 that stores the recovered reaction on every
\* axis.  C6 must tell it from stored_reaction.
reaction_on_every_axis(translation, reaction) == reaction

\* Lines 139-146: the reaction and deflection stored on axis a of joint i.
stored_reaction(translation, reaction) ==
    IF translation # 0 THEN reaction ELSE Zero

stored_deflection(translation, deflection) ==
    IF translation # 0 THEN Zero ELSE deflection

\* Lines 149-150: the structure's buckling factor of safety.
min_fos_buckling(ms) ==
    PyMin([k \in 1 .. Len(ms) |->
             IF RLess(Zero, ms[k].fos_buckling)
             THEN ms[k].fos_buckling ELSE R(NonGoverning)])

\* Line 151: the structure's yielding factor of safety.
min_fos_yielding(ms) == PyMin([k \in 1 .. Len(ms) |-> ms[k].fos_yielding])

\* Line 154
total_fos(buckling, yielding) == PyMin(<<buckling, yielding>>)

\* A variant of lines 155-158 that reports 'buckling' on a tie.  C8 must tell
\* it from governing.
governing_or_equal(buckling, yielding) ==
    IF RLess(yielding, buckling) THEN "yielding" ELSE "buckling"

\* Lines 155-158
governing(buckling, yielding) ==
    IF RLess(buckling, yielding) THEN "buckling" ELSE "yielding"

\* Truss.calc_fos().  (\E x \in {e} binds x to the value of e.)
calc_fos ==
    IF members = <<>>
    THEN \* line 161: connections has one axis only
         /\ raises("calc_fos", "IndexError")
         /\ UNCHANGED <<structure, results, goal_vars>>
    ELSE \E out \in {evaluate_forces(build_truss_info(joints, members))} :
         IF ~out.done
         THEN \* line 196 (or 204, when nothing is free): LinAlgError
              /\ raises("calc_fos", "LinAlgError")
              /\ UNCHANGED <<structure, results, goal_vars>>
         ELSE \/ \* line 204: "SVD did not converge" on a matrix holding nan
                 /\ out.svd_may_fail
                 /\ raises("calc_fos", "LinAlgError")
                 /\ UNCHANGED <<structure, results, goal_vars>>
              \/ \* lines 134-158: the results are stored
                 \E new_members \in
                       {[k \in 1 .. Len(members) |->
                           set_force(members[k], out.forces[k], joints)]} :
                 \E b \in {min_fos_buckling(new_members)} :
                 \E y \in {min_fos_yielding(new_members)} :
                 /\ members' = new_members
                 /\ joints' = [i \in 1 .. Len(joints) |->
                      [joints[i] EXCEPT
                         !.reactions = [a \in 1 .. 3 |->
                            stored_reaction(joints[i].translation[a],
                                            out.reactions[a][i])],
                         !.deflections = [a \in 1 .. 3 |->
                            stored_deflection(joints[i].translation[a],
                                              out.deflections[a][i])]]]
                 /\ fos_buckling' = b
                 /\ fos_yielding' = y
                 /\ fos_total' = total_fos(b, y)
                 /\ limit_state' = governing(b, y)
                 /\ last_run' = out
                 /\ returns("calc_fos")
                 /\ UNCHANGED <<number_of_joints, number_of_members, goal_vars>>

\* The position of the first keyword of kwargs that is no goal, 0 if none.
first_invalid(kwargs) ==
    IF \A i \in 1 .. Len(kwargs) : kwargs[i][1] \in GoalKeys THEN 0
    ELSE CHOOSE i \in 1 .. Len(kwargs) :
            /\ kwargs[i][1] \notin GoalKeys
            /\ \A j \in 1 .. (i - 1) : kwargs[j][1] \in GoalKeys

\* Truss.set_goal(**kwargs); kwargs is the sequence of <<key, value>> pairs in
\* the order the loop of line 40 meets them.
set_goal(kwargs) ==
    LET bad == first_invalid(kwargs)
        upto == IF bad = 0 THEN Len(kwargs) ELSE bad - 1
    IN  /\ goals' = [k \in GoalKeys |->
                       IF \E i \in 1 .. upto : kwargs[i][1] = k
                       THEN kwargs[CHOOSE i \in 1 .. upto : kwargs[i][1] = k][2]
                       ELSE goals[k]]
        /\ THERE_ARE_GOALS' = (bad = 0)
        /\ IF bad = 0 THEN returns("set_goal")
                      ELSE raises("set_goal", "ValueError")
        /\ UNCHANGED <<structure, results>>

\* ------------------------------------------------------------------------
\* The calls the specifications make.
\* ------------------------------------------------------------------------

\* The keywords and values of set_goal calls: the five goals and one name
\* that is no goal.
KwKeys == GoalKeys \cup {"min_mass"}

KwValues == {1, 2}

KwArgs ==
    UNION {{kw \in [1 .. n -> KwKeys \X KwValues] :
              \A i, j \in 1 .. n : i # j => kw[i][1] # kw[j][1]} :
           n \in 0 .. MaxKw}

\* The indices handed to add_member, move_joint and set_load: Python's -1
\* (the last joint), every position, and one past the end.
JointIndices == -1 .. MaxJoints

\* The load applied to a joint (downwards), by the test's assignment and by
\* set_load.
LoadValue == -6

LoadVector == <<0, LoadValue, 0>>

\* Where move_joint puts a joint: the corner no joint is created at while
\* there are at most three joints.
MoveTarget == Corners[4]

\* Build a truss, then analyse it.  The k-th joint is created at the k-th
\* corner, in two dimensions as in the test; a member joins a joint to the
\* joint created last; free joints carry the applied loads.
BuildAddSupport ==
    /\ limit_state = ""
    /\ add_support(CornerOf(number_of_joints), 2)

BuildAddJoint ==
    /\ limit_state = ""
    /\ add_joint(CornerOf(number_of_joints), 2)

BuildAddMember ==
    /\ limit_state = ""
    /\ \E a \in 0 .. MaxJoints : add_member(a, -1)

BuildLoad ==
    /\ limit_state = ""
    /\ \E i \in 0 .. (Len(joints) - 1) :
          /\ joints[i + 1].translation[2] = 0
          /\ assign_loads(i, 1, LoadValue)

Analyse == limit_state = "" /\ calc_fos

NextSolve ==
    \/ BuildAddSupport
    \/ BuildAddJoint
    \/ BuildAddMember
    \/ BuildLoad
    \/ Analyse

SpecSolve == Init /\ [][NextSolve]_vars

\* The life of one truss: any call at any time, before and after analyses.
AddSupport == add_support(CornerOf(number_of_joints), 2)

AddJoint == add_joint(CornerOf(number_of_joints), 2)

LinkMember == \E a \in 0 .. MaxJoints : add_member(a, -1)

MoveJoint == \E i \in JointIndices : move_joint(i, MoveTarget)

SetLoad == \E i \in JointIndices : set_load(i, LoadVector)

CalcFos == calc_fos

Next ==
    \/ AddSupport
    \/ AddJoint
    \/ LinkMember
    \/ MoveJoint
    \/ SetLoad
    \/ CalcFos

Spec == Init /\ [][Next]_vars

\* The bookkeeping of joints and members alone, with every pair of indices.
AddMember == \E a, b \in JointIndices : add_member(a, b)

NextMembers ==
    \/ AddSupport
    \/ AddJoint
    \/ AddMember

SpecMembers == Init /\ [][NextMembers]_vars

\* set_goal calls on one truss.
SetGoal == \E kw \in KwArgs : set_goal(kw)

NextGoal == SetGoal

SpecGoal == Init /\ [][NextGoal]_vars

\* ------------------------------------------------------------------------
\* Properties.
\* ------------------------------------------------------------------------

\* The last call was a calc_fos that returned.
Completed == called = "calc_fos" /\ raised = ""

\* Every member has a length: no member joins a joint to itself or to a joint
\* at the same place.
Regular == \A k \in 1 .. Len(members) : MemberLength(members[k], joints) > 0

\* The computed fields as Truss.__init__ leaves them.
Unanalyzed ==
    /\ limit_state = ""
    /\ fos_total = Zero
    /\ fos_yielding = Zero
    /\ fos_buckling = Zero

\* C1: set_goal is all-or-nothing.  Every set_goal call that holds a keyword
\* which is none of the five goals raises, and leaves the goals table and
\* THERE_ARE_GOALS exactly as they were before the call.
C1_SetGoalAllOrNothing ==
    [][\A kw \in KwArgs :
          (first_invalid(kw) # 0 /\ set_goal(kw))
              => (raised' = "ValueError" /\ UNCHANGED goal_vars)]_vars

\* C2: an edit returns the truss to UNANALYZED.  Whenever the last call was
\* an edit that went through (add_support, add_joint, add_member, move_joint
\* or set_load) and every member has a length, no result of an earlier
\* analysis is on show: the computed fields are those of a truss never
\* analysed.
C2_EditResetsToUnanalyzed ==
    (called = "edit" /\ raised = "" /\ Regular) => Unanalyzed

\* The sum over the joints of the stored reaction on an axis, and of the
\* effective load of the last analysis on that axis.
SumReactions(axis) ==
    RSum([i \in 1 .. Len(joints) |-> joints[i].reactions[axis]])

SumLoads(axis) ==
    RSum([i \in 1 .. Len(joints) |-> last_run.loads[axis][i]])

\* C3: global equilibrium.  After a calc_fos that returned, on a truss whose
\* members all have a length, the stored reactions and the effective loads
\* of all joints sum to zero on each of the three axes.
C3_GlobalEquilibrium ==
    (Completed /\ Regular) =>
        \A axis \in 1 .. 3 : RAdd(SumReactions(axis), SumLoads(axis)) = Zero

\* The calls add_member must refuse: an index that is no position of an
\* existing joint, or twice the same joint.
InvalidPair(a, b) ==
    \/ a \notin 0 .. (number_of_joints - 1)
    \/ b \notin 0 .. (number_of_joints - 1)
    \/ a = b

\* C4: add_member validates connectivity.  Every call add_member(a, b) with
\* a or b not the index of an existing joint (a negative index included), or
\* with a = b, ends in an error and leaves the member list, the number of
\* members and every joint's incidence list unchanged.
C4_AddMemberValidates ==
    [][\A a, b \in JointIndices :
          (InvalidPair(a, b) /\ add_member(a, b))
              => (raised' # "" /\ UNCHANGED structure)]_vars

\* The members in compression, for which buckling governs.
Compressed == {k \in 1 .. Len(members) : RLess(members[k].force, Zero)}

\* Every member carries a force, in tension or in compression.
AllStressed == \A k \in 1 .. Len(members) : members[k].force # Zero

\* C5: the structure's buckling factor of safety.  After a calc_fos that
\* returned, on a truss whose members all have a length and carry a force,
\* fos_buckling is the least buckling factor among the members in
\* compression, no larger than any of them and equal to one of them; it is
\* the sentinel only when no member is in compression.
C5_BucklingMinOverCompressed ==
    (Completed /\ Regular /\ AllStressed) =>
        IF Compressed = {}
        THEN fos_buckling = R(NonGoverning)
        ELSE /\ \E k \in Compressed : fos_buckling = members[k].fos_buckling
             /\ \A k \in Compressed :
                   ~RLess(members[k].fos_buckling, fos_buckling)

\* C6: exactly one of reaction and deflection per axis.  After a calc_fos
\* that returned, every constrained axis of every joint stores deflection
\* zero and the reaction evaluate_forces recovered, and every free axis
\* stores reaction zero and the deflection evaluate_forces solved.
C6_ReactionXorDeflection ==
    Completed =>
        \A i \in 1 .. Len(joints) : \A a \in 1 .. 3 :
            IF joints[i].translation[a] # 0
            THEN /\ joints[i].deflections[a] = Zero
                 /\ joints[i].reactions[a] = last_run.reactions[a][i]
            ELSE /\ joints[i].reactions[a] = Zero
                 /\ joints[i].deflections[a] = last_run.deflections[a][i]

\* An analysed truss with a support that reacts and a free joint that has
\* moved, whose free axis would carry a reaction had it been stored.
C6_Witness ==
    /\ Completed
    /\ \E i \in 1 .. Len(joints) : \E a \in 1 .. 3 :
          /\ joints[i].translation[a] # 0
          /\ joints[i].reactions[a] # Zero
          /\ IsFinite(joints[i].reactions[a])
    /\ \E i \in 1 .. Len(joints) : \E a \in 1 .. 3 :
          /\ joints[i].translation[a] = 0
          /\ joints[i].deflections[a] # Zero
          /\ last_run.reactions[a][i] # Zero

\* The reduced stiffness matrix of the truss as it stands is singular, so
\* its condition number is beyond pow(10, 10).
Unstable ==
    /\ members # <<>>
    /\ \E info \in {build_truss_info(joints, members)} :
          /\ free_dofs(info) # <<>>
          /\ cond_exceeds(reduced_stiffness(info))

\* C7: an unstable structure is not fatal.  Whenever calc_fos was called on
\* a truss whose members all have a length and whose reduced stiffness
\* matrix is beyond the condition threshold, the call returned and every
\* member stores the recovered force times pow(10, 10).
C7_UnstableNotFatal ==
    (called = "calc_fos" /\ Regular /\ Unstable) =>
        /\ raised = ""
        /\ last_run.done
        /\ \A k \in 1 .. Len(members) :
              members[k].force = scale_unstable(last_run.recovered[k])

\* C8: the governing limit state.  After a calc_fos that returned, fos_total
\* is one of fos_buckling and fos_yielding and neither is smaller than it,
\* and limit_state is 'buckling' exactly when fos_buckling is strictly less
\* than fos_yielding, and 'yielding' otherwise.
C8_TotalAndLimitState ==
    Completed =>
        /\ fos_total \in {fos_buckling, fos_yielding}
        /\ ~RLess(fos_buckling, fos_total)
        /\ ~RLess(fos_yielding, fos_total)
        /\ limit_state = IF RLess(fos_buckling, fos_yielding)
                         THEN "buckling" ELSE "yielding"

\* An analysed truss whose two factors of safety are equal, reported as
\* 'yielding'.
C8_Witness ==
    /\ Completed
    /\ Regular
    /\ fos_buckling = fos_yielding
    /\ limit_state = "yielding"

\* The global indices 3 * joint + axis (joints and axes from 0) of the free
\* degrees of freedom of the truss.
FreeSet ==
    {f \in 0 .. (3 * Len(joints) - 1) :
        joints[(f \div 3) + 1].translation[(f % 3) + 1] = 0}

\* C9: the free-DOF index set and the scatter.  After a calc_fos that
\* returned, the index set ff of the reduction holds exactly the free
\* degrees of freedom as 3 * joint + axis in ascending order, the k-th
\* solved deflection is the deflection of the k-th of them, and every
\* constrained degree of freedom has deflection zero.
C9_FreeDofOrderAndScatter ==
    Completed =>
        \E ff \in {last_run.ff} :
            /\ Len(ff) = Cardinality(FreeSet)
            /\ \A k \in 1 .. Len(ff) : ff[k] \in FreeSet
            /\ \A k \in 1 .. (Len(ff) - 1) : ff[k] < ff[k + 1]
            /\ \A k \in 1 .. Len(ff) :
                  last_run.deflections[(ff[k] % 3) + 1][(ff[k] \div 3) + 1]
                      = last_run.Uff[k]
            /\ \A f \in (0 .. (3 * Len(joints) - 1)) \ FreeSet :
                  last_run.deflections[(f % 3) + 1][(f \div 3) + 1] = Zero

\* An analysed truss with two free degrees of freedom whose solved
\* deflections differ, between constrained ones before and after.
C9_Witness ==
    /\ Completed
    /\ Regular
    /\ Len(last_run.ff) >= 2
    /\ last_run.Uff[1] # last_run.Uff[2]
    /\ last_run.Uff[2] # Zero
    /\ \E f \in (0 .. (3 * Len(joints) - 1)) \ FreeSet : f < last_run.ff[1]
    /\ \E f \in (0 .. (3 * Len(joints) - 1)) \ FreeSet : f > last_run.ff[2]

\* C10: set_load sets the applied load.  After a calc_fos that returned, on
\* a truss whose members all have a length, the load vector it built holds,
\* for every joint given a load by set_load, the load set last, less the
\* joint's lumped weight on the gravity axis.
C10_SetLoadIsApplied ==
    (Completed /\ Regular) =>
        \A i \in 1 .. Len(joints) :
            joints[i].load # NoLoad =>
                \A a \in 1 .. 3 :
                    last_run.loads[a][i] =
                        IF a = 2
                        THEN RSub(R(joints[i].load[2]),
                                  lumped_weight(joints, members, i))
                        ELSE R(joints[i].load[a])

====
